---- MODULE Spec2Model ----
(***************************************************************************)
(* Acquisition-and-indexing pipeline of resolv-data.                       *)
(*                                                                         *)
(* A file name is the sequence of its dot-separated components             *)
(* ("lmd_matched.tar.gz" is <<"lmd_matched", "tar", "gz">>), a path is a   *)
(* sequence of file names, and the filesystem is a function from the       *)
(* existing paths to their nodes.  One DirectoryDataset instance lives on  *)
(* that filesystem; download() and compute_index() are atomic actions that *)
(* run the whole method, recording the call and its events in `last`.      *)
(***************************************************************************)
EXTENDS Integers, Sequences, FiniteSets, TLC

VARIABLES
    fs,        \* the filesystem: path -> [kind, data, fresh]
    mode,      \* self._mode of the dataset instance
    root_dir,  \* self._root_dir of the dataset instance (NoPath is None)
    last,      \* the last call: operation, arguments, error, result, events
    prev,      \* the call before the last one
    calls      \* number of calls made so far

vars == <<fs, mode, root_dir, last, prev, calls>>

\* Bounds of the model: calls per behaviour, temporary file names in use,
\* sources per download() whose transfer does not deliver the expected body.
MaxCalls == 2
MaxTemp == 2
MaxFaults == 1

NoPath == <<>>

-----------------------------------------------------------------------------
(* Paths and the filesystem (pathlib / os / shutil as the code uses them). *)

Parent(p) == SubSeq(p, 1, Len(p) - 1)

BaseName(p) == p[Len(p)]

IsPrefix(p, q) == Len(p) <= Len(q) /\ SubSeq(q, 1, Len(p)) = p

Exists(f, p) == p \in DOMAIN f

IsDir(f, p) == p \in DOMAIN f /\ f[p].kind = "dir"

IsFile(f, p) == p \in DOMAIN f /\ f[p].kind = "file"

DirNode == [kind |-> "dir", data |-> "", fresh |-> TRUE]

FileNode(d) == [kind |-> "file", data |-> d, fresh |-> TRUE]

\* The same function, as an enumerated value (TLC otherwise re-evaluates the
\* constructing expression at every application).
Enumerated(f) == f @@ <<>>

\* Path.iterdir(): the direct children of p.
IterDir(f, p) == {q \in DOMAIN f : Len(q) = Len(p) + 1 /\ IsPrefix(p, q)}

\* shutil.rmtree(p, ignore_errors=True) and Path.unlink(): p and all below it go.
Rmtree(f, p) == Enumerated([q \in {r \in DOMAIN f : ~IsPrefix(p, r)} |-> f[q]])

\* Path.mkdir(parents=True, exist_ok=True)
MkdirP(f, p) ==
    LET new == {SubSeq(p, 1, k) : k \in 1..Len(p)} \ DOMAIN f
    IN  Enumerated([q \in DOMAIN f \cup new |-> IF q \in new THEN DirNode ELSE f[q]])

\* open(p, 'wb') followed by the writes: p holds exactly d afterwards.
WriteFile(f, p, d) == (p :> FileNode(d)) @@ f

\* Path.rename(dst) of an entry whose destination is free or replaceable:
\* the whole subtree of src moves to dst.
RenameTree(f, src, dst) ==
    LET moved == {q \in DOMAIN f : IsPrefix(src, q)}
        kept  == {q \in DOMAIN f : ~IsPrefix(src, q) /\ ~IsPrefix(dst, q)}
        To(q) == dst \o SubSeq(q, Len(src) + 1, Len(q))
        From(r) == src \o SubSeq(r, Len(dst) + 1, Len(r))
    IN  Enumerated([r \in kept \cup {To(q) : q \in moved} |->
                       IF r \in kept THEN f[r] ELSE f[From(r)]])

\* The marks "written during the current call" are cleared when a call starts.
Age(f) == Enumerated([q \in DOMAIN f |-> [f[q] EXCEPT !.fresh = FALSE]])

-----------------------------------------------------------------------------
(* Dataset descriptor: the declared remote sources of each mode.            *)

RemoteSource(filename, url, checksum, main_source, archive, has_archived_root) ==
    [filename |-> filename, url |-> url, checksum |-> checksum,
     checksum_type |-> "sha256", main_source |-> main_source,
     archive |-> archive, has_archived_root |-> has_archived_root]

\* What each url serves when the upstream file is the one the checksum was
\* taken from, and the other bodies a transfer can deliver.
GoodBody == [u \in {"u_main", "u_main2", "u_scores", "u_h5", "u_plain"} |->
                CASE u = "u_main"   -> "body_main"
                  [] u = "u_main2"  -> "body_main"
                  [] u = "u_scores" -> "body_scores"
                  [] u = "u_h5"     -> "body_h5"
                  [] u = "u_plain"  -> "body_plain"]

\* hashlib digest of a body: one digest per (algorithm, body), no collisions.
HexDigest(checksum_type, data) == checksum_type \o ":" \o data

lmd_matched_resource ==
    RemoteSource(<<"lmd_matched", "tar", "gz">>, "u_main",
                 HexDigest("sha256", "body_main"), TRUE, TRUE, TRUE)

lmd_second_resource ==
    RemoteSource(<<"lmd_full", "tar", "gz">>, "u_main2",
                 HexDigest("sha256", "body_main"), TRUE, TRUE, TRUE)

match_scores_resource ==
    RemoteSource(<<"match_scores", "json">>, "u_scores",
                 HexDigest("sha256", "body_scores"), FALSE, FALSE, FALSE)

msd_h5_resource ==
    RemoteSource(<<"msd_h5_metadata", "tar", "gz">>, "u_h5",
                 HexDigest("sha256", "body_h5"), FALSE, TRUE, TRUE)

plain_resource ==
    RemoteSource(<<"notes", "json">>, "u_plain",
                 HexDigest("sha256", "body_plain"), TRUE, FALSE, FALSE)

\* remote_sources(): mode -> declared list.  "matched" declares an auxiliary
\* source before the main one; "nomain" and "twomain" are invalid source sets;
\* "plain" has a main source that is not an archive.
remote_sources ==
    [md \in {"full", "matched", "nomain", "twomain", "plain"} |->
        CASE md = "full"    -> <<lmd_matched_resource>>
          [] md = "matched" -> <<match_scores_resource, lmd_matched_resource,
                                 msd_h5_resource>>
          [] md = "nomain"  -> <<match_scores_resource>>
          [] md = "twomain" -> <<lmd_matched_resource, lmd_second_resource>>
          [] md = "plain"   -> <<plain_resource>>]

Modes == DOMAIN remote_sources

\* root_dir_name: f'{info.name.replace(" ", "_").lower()}-v{self.version}-{self._mode}'
\* for name "Lakh MIDI" and version "1.0.0".
root_dir_name(md) == <<"lakh_midi-v1", "0", "0-" \o md>>

\* _default_path(): Path.home() / ".resolv" / "datasets"
default_path == << <<"home">>, <<"", "resolv">>, <<"datasets">> >>

\* tempfile.gettempdir()
TempDir == << <<"tmp">> >>

\* str.split(".")[0] of a file name
SplitDot0(name) == <<name[1]>>

-----------------------------------------------------------------------------
(* Checksum engine (utilities.compute_checksum / validate_checksum).        *)

compute_checksum(f, file_path, checksum_type) ==
    HexDigest(checksum_type, f[file_path].data)

\* validate_checksum() with the algorithm left at its default.
ValidateWithDefault(f, file_path, checksum, checksum_type) ==
    compute_checksum(f, file_path, "sha256") = checksum

validate_checksum(f, file_path, checksum, checksum_type) ==
    compute_checksum(f, file_path, checksum_type) = checksum

-----------------------------------------------------------------------------
(* Source fetcher (utilities.download).                                     *)

\* What download() does, as its caller could observe it: a call of the fetcher
\* ("fetch", with the target it is given), its outcome ("cached": the existing
\* file is taken; "transfer": the url is requested, data is what it serves),
\* the extraction of an archive, the setting of the root, the no-op return.
Event(ev, url, path, data) == [ev |-> ev, url |-> url, path |-> path, data |-> data]

\* Names NamedTemporaryFile can hand out; the first MaxTemp of them are used.
TmpIds == <<"tmp1", "tmp2", "tmp3", "tmp4">>

\* NamedTemporaryFile(suffix=f'_{temp_suffix}') or NamedTemporaryFile()
TempName(k, temp_suffix) ==
    IF temp_suffix = NoPath THEN <<TmpIds[k]>>
    ELSE <<TmpIds[k] \o "_" \o temp_suffix[1]>> \o Tail(temp_suffix)

FreeTemp(f, temp_suffix) ==
    {k \in 1..MaxTemp : (TempDir \o <<TempName(k, temp_suffix)>>) \notin DOMAIN f}

NamedTemporaryFile(f, temp_suffix) ==
    LET k == CHOOSE i \in FreeTemp(f, temp_suffix) :
                 \A j \in FreeTemp(f, temp_suffix) : i <= j
    IN  TempDir \o <<TempName(k, temp_suffix)>>

\* The result of a utility call: the filesystem it leaves, the error it raised
\* ("ok" when it returned), the path it returned and the events it produced.
Result(f, err, path, events) ==
    [fs |-> f, err |-> err, path |-> path, events |-> events]

\* Lines 88-90 without the validation: the written file is returned as it is.
NotValidated(f, output_file, checksum, checksum_type, allow_invalid_checksum, events) ==
    Result(f, "ok", output_file, events)

\* Lines 88-90: the written file is validated, then returned.
Validated(f, output_file, checksum, checksum_type, allow_invalid_checksum, events) ==
    IF ~allow_invalid_checksum /\ ~validate_checksum(f, output_file, checksum, checksum_type)
    THEN Result(f, "ChecksumMismatch", NoPath, events)
    ELSE Result(f, "ok", output_file, events)

\* Lines 78-90: the transfer into output_file (just opened, so empty) and the
\* validation of what was written.  `served` is what requests.get gets: "fail"
\* (raise_for_status raises) or the body that is streamed to the file.
Transfer(f, output_file, checksum, checksum_type, allow_invalid_checksum, served, events) ==
    IF served = "fail"
    THEN Result(f, "TransferError", NoPath, events)
    ELSE Validated(WriteFile(f, output_file, served), output_file, checksum, checksum_type,
                   allow_invalid_checksum, events)

\* Lines 56-66 without the validation of line 62: the existing file is taken.
ExistingFileTrusted(f, url, output_file_path, checksum, checksum_type, allow_invalid_checksum) ==
    Result(f, "ok", output_file_path,
           <<Event("fetch", url, output_file_path, ""),
             Event("cached", url, output_file_path, f[output_file_path].data)>>)

\* Lines 56-66: output_file_path exists and force_overwrite is off.
ExistingFile(f, url, output_file_path, checksum, checksum_type, allow_invalid_checksum) ==
    IF ~allow_invalid_checksum /\ IsDir(f, output_file_path)
    THEN Result(f, "IsADirectoryError", NoPath, <<Event("fetch", url, output_file_path, "")>>)
    ELSE IF ~allow_invalid_checksum
            /\ ~validate_checksum(f, output_file_path, checksum, checksum_type)
    THEN Result(f, "ChecksumMismatch", NoPath, <<Event("fetch", url, output_file_path, "")>>)
    ELSE Result(f, "ok", output_file_path,
                <<Event("fetch", url, output_file_path, ""),
                  Event("cached", url, output_file_path, f[output_file_path].data)>>)

\* Lines 57-60 and 67-69: the named output file is (re)created empty.
OpenNamed(f, output_file_path) ==
    WriteFile(MkdirP(IF Exists(f, output_file_path) THEN Rmtree(f, output_file_path) ELSE f,
                     Parent(output_file_path)),
              output_file_path, "")

\* download() that transfers anew when the file it finds does not validate.
DownloadReplacingInvalid(f, url, output_file_path, temp, temp_suffix, force_overwrite, checksum, checksum_type, allow_invalid_checksum, served) ==
    IF ~temp /\ output_file_path # NoPath
    THEN IF /\ Exists(f, output_file_path) /\ ~force_overwrite
            /\ \/ allow_invalid_checksum
               \/ /\ IsFile(f, output_file_path)
                  /\ validate_checksum(f, output_file_path, checksum, checksum_type)
         THEN ExistingFile(f, url, output_file_path, checksum, checksum_type,
                           allow_invalid_checksum)
         ELSE Transfer(OpenNamed(f, output_file_path), output_file_path, checksum,
                       checksum_type, allow_invalid_checksum, served,
                       <<Event("fetch", url, output_file_path, ""),
                         Event("transfer", url, output_file_path, served)>>)
    ELSE Transfer(WriteFile(f, NamedTemporaryFile(f, IF temp THEN temp_suffix ELSE NoPath), ""),
                  NamedTemporaryFile(f, IF temp THEN temp_suffix ELSE NoPath), checksum,
                  checksum_type, allow_invalid_checksum, served,
                  <<Event("fetch", url, output_file_path, ""),
                    Event("transfer", url,
                          NamedTemporaryFile(f, IF temp THEN temp_suffix ELSE NoPath),
                          served)>>)

\* download(url, output_file_path, temp, temp_suffix, force_overwrite, checksum,
\* checksum_type, allow_invalid_checksum)
UtilDownload(f, url, output_file_path, temp, temp_suffix, force_overwrite, checksum, checksum_type, allow_invalid_checksum, served) ==
    IF ~temp /\ output_file_path # NoPath
    THEN IF Exists(f, output_file_path) /\ ~force_overwrite
         THEN ExistingFile(f, url, output_file_path, checksum, checksum_type,
                           allow_invalid_checksum)
         ELSE Transfer(OpenNamed(f, output_file_path), output_file_path, checksum,
                       checksum_type, allow_invalid_checksum, served,
                       <<Event("fetch", url, output_file_path, ""),
                         Event("transfer", url, output_file_path, served)>>)
    ELSE Transfer(WriteFile(f, NamedTemporaryFile(f, IF temp THEN temp_suffix ELSE NoPath), ""),
                  NamedTemporaryFile(f, IF temp THEN temp_suffix ELSE NoPath), checksum,
                  checksum_type, allow_invalid_checksum, served,
                  <<Event("fetch", url, output_file_path, ""),
                    Event("transfer", url,
                          NamedTemporaryFile(f, IF temp THEN temp_suffix ELSE NoPath),
                          served)>>)

-----------------------------------------------------------------------------
(* Archive engine (utilities.extract_archive / move_content).               *)

NoKind == <<>>

_SUPPORTED_ARCHIVES ==
    << <<"zip">>, <<"tar">>, <<"tar", "gz">>, <<"tgz">>, <<"tar", "xz">>, <<"txz">>,
       <<"tbz">>, <<"tar", "bz">>, <<"xz">>, <<"gz">> >>

\* str.endswith("." + suffix) on a file name
EndsWith(name, suffix) ==
    /\ Len(name) > Len(suffix)
    /\ SubSeq(name, Len(name) - Len(suffix) + 1, Len(name)) = suffix

\* _infer_archive_type(): the first supported suffix the path ends with, or None
_infer_archive_type(archive_path) ==
    LET name == BaseName(archive_path)
        hits == {i \in 1..Len(_SUPPORTED_ARCHIVES) : EndsWith(name, _SUPPORTED_ARCHIVES[i])}
    IN  IF hits = {} THEN NoKind
        ELSE _SUPPORTED_ARCHIVES[CHOOSE i \in hits : \A j \in hits : i <= j]

\* Path.stem
Stem(name) ==
    IF Len(name) = 1 \/ (Len(name) = 2 /\ name[1] = "") THEN name
    ELSE SubSeq(name, 1, Len(name) - 1)

\* The suffixes shutil.unpack_archive knows how to unpack.
ShutilFormats ==
    { <<"zip">>, <<"tar">>, <<"tar", "gz">>, <<"tgz">>, <<"tar", "bz2">>, <<"tbz2">>,
      <<"tar", "xz">>, <<"txz">> }

\* The members of the archive bodies of the model, relative to the extraction
\* directory.  Every other body is no archive at all.
ArchiveTree(data) ==
    CASE data = "body_main" ->
            (<< <<"lmd_matched">> >> :> DirNode)
         @@ (<< <<"lmd_matched">>, <<"a", "mxl">> >> :> FileNode("score_a"))
         @@ (<< <<"lmd_matched">>, <<"sub">> >> :> DirNode)
         @@ (<< <<"lmd_matched">>, <<"sub">>, <<"a", "mxl">> >> :> FileNode("score_b"))
      [] data = "body_h5" ->
            (<< <<"lmd_matched_h5">> >> :> DirNode)
         @@ (<< <<"lmd_matched_h5">>, <<"t", "h5">> >> :> FileNode("h5_t"))
      [] data = "body_alt" ->
            (<< <<"lmd_matched">> >> :> DirNode)
         @@ (<< <<"lmd_matched">>, <<"a", "mxl">> >> :> FileNode("score_x"))
         @@ (<< <<"README">> >> :> FileNode("readme"))
      [] data = "body_wrapper" ->
            (<< <<"wrapper">> >> :> DirNode)
         @@ (<< <<"wrapper">>, <<"a", "txt">> >> :> FileNode("text_a"))
      [] OTHER -> <<>>

IsArchive(data) == data \in {"body_main", "body_h5", "body_alt", "body_wrapper"}

\* shutil.unpack_archive(archive_path, output_path) of a readable archive:
\* output_path is created and every member written below it.
UnpackArchive(f, archive_path, output_path) ==
    LET tree == ArchiveTree(f[archive_path].data)
        f1   == MkdirP(f, output_path)
        new  == {output_path \o r : r \in DOMAIN tree}
    IN  Enumerated([q \in DOMAIN f1 \cup new |->
            IF q \in new /\ ~(q \in DOMAIN f1 /\ f1[q].kind = "dir"
                              /\ tree[SubSeq(q, Len(output_path) + 1, Len(q))].kind = "dir")
            THEN tree[SubSeq(q, Len(output_path) + 1, Len(q))]
            ELSE f1[q]])

\* Path.rename(destination_path): the error it raises, or "ok".
RenameError(f, item, destination_path) ==
    CASE ~IsDir(f, Parent(destination_path)) -> "FileNotFoundError"
      [] ~Exists(f, destination_path) -> "ok"
      [] IsFile(f, item) /\ IsDir(f, destination_path) -> "IsADirectoryError"
      [] IsDir(f, item) /\ IsFile(f, destination_path) -> "NotADirectoryError"
      [] IsDir(f, item) /\ IterDir(f, destination_path) # {} -> "OSError"
      [] OTHER -> "ok"

\* iterdir() yields the entries in directory order, which the code does not
\* control: `pick` names the entry that comes first when it is present.
NextEntry(entries, dir, pick) ==
    IF (dir \o <<pick>>) \in entries THEN dir \o <<pick>>
    ELSE CHOOSE e \in entries : TRUE

\* The loop of move_content: rename every entry of source_dir into destination_dir.
RECURSIVE MoveItems(_, _, _, _, _)
MoveItems(f, items, source_dir, destination_dir, pick) ==
    IF items = {} THEN Result(f, "ok", NoPath, <<>>)
    ELSE LET item == NextEntry(items, source_dir, pick)
             destination_path == destination_dir \o <<BaseName(item)>>
             e == RenameError(f, item, destination_path)
         IN  IF e # "ok" THEN Result(f, e, NoPath, <<>>)
             ELSE MoveItems(RenameTree(f, item, destination_path), items \ {item},
                            source_dir, destination_dir, pick)

\* Lines 220-221 of move_content: after the loop, rmdir the source.
RemoveSource(r, source_dir, delete_src) ==
    IF r.err # "ok" \/ ~delete_src THEN r
    ELSE IF IterDir(r.fs, source_dir) # {}
    THEN Result(r.fs, "OSError", NoPath, <<>>)
    ELSE Result(Rmtree(r.fs, source_dir), "ok", NoPath, <<>>)

\* move_content(source_dir, destination_dir, delete_src)
move_content(f, source_dir, destination_dir, delete_src, pick) ==
    IF ~Exists(f, source_dir) THEN Result(f, "FileNotFoundError", NoPath, <<>>)
    ELSE IF ~IsDir(f, source_dir) THEN Result(f, "NotADirectoryError", NoPath, <<>>)
    ELSE RemoveSource(MoveItems(f, IterDir(f, source_dir), source_dir, destination_dir, pick),
                      source_dir, delete_src)

\* Lines 181-191 of extract_archive: the extraction itself.
Unpack(f, archive_path, output_path, kind) ==
    IF kind \in { <<"zip">>, <<"tar">>, <<"tgz">>, <<"tar", "gz">>, <<"txz">>,
                  <<"tar", "xz">>, <<"tbz">>, <<"tar", "bz">> }
    THEN IF \/ ~\E sfx \in ShutilFormats : EndsWith(BaseName(archive_path), sfx)
            \/ ~IsArchive(f[archive_path].data)
         THEN Result(f, "ReadError", NoPath, <<>>)
         ELSE Result(UnpackArchive(f, archive_path, output_path), "ok", NoPath, <<>>)
    ELSE IF kind \in { <<"gz">>, <<"xz">> }
    THEN \* gzip.open / lzma.open read output_path, which open(.., "wb") truncates
         IF ~Exists(f, output_path) THEN Result(f, "FileNotFoundError", NoPath, <<>>)
         ELSE IF IsDir(f, output_path) THEN Result(f, "IsADirectoryError", NoPath, <<>>)
         ELSE IF kind = <<"gz">>
         THEN Result(WriteFile(f, output_path, ""), "ok", NoPath, <<>>)
         ELSE Result(WriteFile(f, output_path, ""), "EOFError", NoPath, <<>>)
    ELSE Result(f, "UnsupportedFormat", NoPath, <<>>)

\* Line 204 of extract_archive, reached when move_content raised nothing.
Flattened(mv, output_path) ==
    IF mv.err # "ok" THEN mv ELSE Result(mv.fs, "ok", output_path, <<>>)

\* extract_archive without lines 199-202: the tree is returned as extracted.
MoveRootDirSkipped(f, output_path, move_root_dir, pick) ==
    Result(f, "ok", output_path, <<>>)

\* Lines 199-204 of extract_archive: move the first entry's content up.
MoveRootDir(f, output_path, move_root_dir, pick) ==
    IF ~move_root_dir THEN Result(f, "ok", output_path, <<>>)
    ELSE IF ~IsDir(f, output_path) THEN Result(f, "NotADirectoryError", NoPath, <<>>)
    ELSE IF IterDir(f, output_path) = {} THEN Result(f, "StopIteration", NoPath, <<>>)
    ELSE Flattened(move_content(f, NextEntry(IterDir(f, output_path), output_path, pick),
                                output_path, TRUE, pick),
                   output_path)

\* Lines 195-204 of extract_archive: what follows the extraction step x.
AfterUnpack(x, archive_path, output_path, move_root_dir, cleanup, pick) ==
    IF x.err # "ok" THEN x
    ELSE MoveRootDir(IF cleanup THEN Rmtree(x.fs, archive_path) ELSE x.fs,
                     output_path, move_root_dir, pick)

\* extract_archive(archive_path, output_path, move_root_dir, kind, cleanup)
extract_archive(f, archive_path, output_path, move_root_dir, kind, cleanup, pick) ==
    AfterUnpack(Unpack(f, archive_path,
                       IF output_path # NoPath THEN output_path
                       ELSE Parent(archive_path) \o <<Stem(BaseName(archive_path))>>,
                       IF kind = NoKind THEN _infer_archive_type(archive_path) ELSE kind),
                archive_path,
                IF output_path # NoPath THEN output_path
                ELSE Parent(archive_path) \o <<Stem(BaseName(archive_path))>>,
                move_root_dir, cleanup, pick)

-----------------------------------------------------------------------------
(* Acquisition orchestrator (DirectoryDataset.download).                    *)

IsMain(source) == source.main_source

IsAux(source) == ~source.main_source

\* The sources as declared, the sort of line 180 left out.
Unsorted(sources) == sources

\* sorted(sources, key=lambda x: x.main_source, reverse=True): a stable sort,
\* main sources first, each group in its declared order.
SortSources(sources) == SelectSeq(sources, IsMain) \o SelectSeq(sources, IsAux)

main_sources_count(sources) ==
    Cardinality({i \in DOMAIN sources : sources[i].main_source})

\* The run of download() so far: filesystem, self._root_dir, error, events.
Run(f, root, err, log) == [fs |-> f, root_dir |-> root, err |-> err, log |-> log]

\* The base output path (None when temp).
BaseOutputPath(output_path, temp) ==
    IF temp THEN NoPath
    ELSE IF output_path # NoPath THEN output_path ELSE default_path

\* Lines 212-215 with a guard: a root that is set is never set again.
SetRootOnce(st, source, x, log) ==
    IF x.err # "ok" THEN Run(x.fs, st.root_dir, x.err, log)
    ELSE IF source.main_source /\ st.root_dir = NoPath
    THEN Run(x.fs, x.path, "ok", log \o <<Event("set_root", source.url, x.path, "")>>)
    ELSE Run(x.fs, st.root_dir, "ok", log)

\* Lines 212-215 with a rollback: a source that fails unsets the root.
SetRootRolledBack(st, source, x, log) ==
    IF x.err # "ok" THEN Run(x.fs, NoPath, x.err, log)
    ELSE IF source.main_source
    THEN Run(x.fs, x.path, "ok", log \o <<Event("set_root", source.url, x.path, "")>>)
    ELSE Run(x.fs, st.root_dir, "ok", log)

\* Lines 212-215: the source is processed; the main one sets the root directory.
SetRoot(st, source, x, log) ==
    IF x.err # "ok" THEN Run(x.fs, st.root_dir, x.err, log)
    ELSE IF source.main_source
    THEN Run(x.fs, x.path, "ok", log \o <<Event("set_root", source.url, x.path, "")>>)
    ELSE Run(x.fs, st.root_dir, "ok", log)

\* Lines 208-210: a main source that is no archive is moved into the root
\* directory; downloaded_sources_path stays the fetched file.
Relocate(mv, downloaded_sources_path) ==
    Result(mv.fs, mv.err, downloaded_sources_path, <<>>)

\* Lines 200-215: what follows the fetch d of a source.
AfterFetch(st, md, source, cleanup, pick, d) ==
    IF d.err # "ok" THEN Run(d.fs, st.root_dir, d.err, st.log \o d.events)
    ELSE IF source.archive
    THEN SetRoot(st, source,
                 extract_archive(d.fs, d.path,
                     Parent(d.path) \o <<IF source.main_source THEN root_dir_name(md)
                                         ELSE SplitDot0(source.filename)>>,
                     source.has_archived_root, NoKind, cleanup, pick),
                 st.log \o d.events \o
                     <<Event("extract", source.url,
                             Parent(d.path) \o <<IF source.main_source THEN root_dir_name(md)
                                                 ELSE SplitDot0(source.filename)>>,
                             "")>>)
    ELSE IF source.main_source
    THEN SetRoot(st, source,
                 Relocate(move_content(d.fs, d.path, Parent(d.path) \o <<root_dir_name(md)>>,
                                       TRUE, pick),
                          d.path),
                 st.log \o d.events)
    ELSE SetRoot(st, source, d, st.log \o d.events)

\* Lines 184-187: where the source is fetched to.
source_output_path(st, source, output_path, temp) ==
    IF source.main_source
    THEN IF ~temp THEN BaseOutputPath(output_path, temp) \o <<source.filename>> ELSE NoPath
    ELSE st.root_dir \o <<source.filename>>

\* The body of the loop over the sorted sources, for one source.
ProcessSource(st, md, source, output_path, temp, overwrite, cleanup, allow_invalid_checksum, net, pick) ==
    IF ~source.main_source /\ st.root_dir = NoPath
    THEN Run(st.fs, st.root_dir, "TypeError", st.log)
    ELSE AfterFetch(st, md, source, cleanup, pick,
                    UtilDownload(st.fs, source.url,
                                 source_output_path(st, source, output_path, temp),
                                 IF source.main_source THEN temp ELSE FALSE,
                                 source.filename, overwrite, source.checksum,
                                 source.checksum_type, allow_invalid_checksum,
                                 net[source.url]))

\* for source in sources: ...   (an exception ends the loop)
RECURSIVE ProcessSources(_, _, _, _, _, _, _, _, _, _)
ProcessSources(st, md, sources, output_path, temp, overwrite, cleanup, allow_invalid_checksum, net, pick) ==
    IF sources = <<>> \/ st.err # "ok" THEN st
    ELSE ProcessSources(
             ProcessSource(st, md, Head(sources), output_path, temp, overwrite, cleanup,
                           allow_invalid_checksum, net, pick),
             md, Tail(sources), output_path, temp, overwrite, cleanup,
             allow_invalid_checksum, net, pick)

\* Lines 173-217: validation of the source set, then the loop.
DownloadSources(f, md, root, output_path, temp, overwrite, cleanup, allow_invalid_checksum, net, pick) ==
    IF main_sources_count(remote_sources[md]) # 1
    THEN Run(f, root, "InvalidSourceSet", <<>>)
    ELSE ProcessSources(Run(f, root, "ok", <<>>), md, SortSources(remote_sources[md]),
                        output_path, temp, overwrite, cleanup,
                        allow_invalid_checksum, net, pick)

\* Line 155
root_dir_path(md, output_path) ==
    BaseOutputPath(output_path, FALSE) \o <<root_dir_name(md)>>

\* download() without the return of lines 160-164: an existing root directory is
\* not recognised and the sources are processed again.
DownloadWithoutNoOp(f, md, root, output_path, temp, overwrite, cleanup, allow_invalid_checksum, net, pick) ==
    DownloadSources(IF ~temp /\ overwrite /\ IsDir(f, root_dir_path(md, output_path))
                    THEN Rmtree(f, root_dir_path(md, output_path)) ELSE f,
                    md, root, output_path, temp, overwrite, cleanup,
                    allow_invalid_checksum, net, pick)

\* download() without the rmtree of line 159: with overwrite an existing root
\* directory is kept and the sources are processed into it.
DownloadKeepingRoot(f, md, root, output_path, temp, overwrite, cleanup, allow_invalid_checksum, net, pick) ==
    IF ~temp /\ IsDir(f, root_dir_path(md, output_path)) /\ ~overwrite
    THEN Run(f, root_dir_path(md, output_path), "ok",
             <<Event("noop", "", root_dir_path(md, output_path), "")>>)
    ELSE DownloadSources(f, md, root, output_path, temp, overwrite, cleanup,
                         allow_invalid_checksum, net, pick)

\* download(output_path, temp, overwrite, cleanup, allow_invalid_checksum) on an
\* instance of mode md whose root is `root`, on filesystem f.
DatasetDownload(f, md, root, output_path, temp, overwrite, cleanup, allow_invalid_checksum, net, pick) ==
    IF ~temp /\ IsDir(f, root_dir_path(md, output_path))
    THEN IF overwrite
         THEN DownloadSources(Rmtree(f, root_dir_path(md, output_path)), md, root,
                              output_path, temp, overwrite, cleanup,
                              allow_invalid_checksum, net, pick)
         ELSE Run(f, root_dir_path(md, output_path), "ok",
                  <<Event("noop", "", root_dir_path(md, output_path), "")>>)
    ELSE DownloadSources(f, md, root, output_path, temp, overwrite, cleanup,
                         allow_invalid_checksum, net, pick)

-----------------------------------------------------------------------------
(* Manifest builder (compute_index / _compute_index_internal).              *)

\* self._root_dir.glob('**/*.mxml') and glob('**/*.mxl')
MusicXmlFiles(f, root) ==
    {q \in DOMAIN f : /\ IsPrefix(root, q) /\ q # root
                      /\ \/ EndsWith(BaseName(q), <<"mxml">>)
                         \/ EndsWith(BaseName(q), <<"mxl">>)}

\* build_track_proto() recording the file's path on the local disk.
TrackProtoLocalPath(f, root, path_prefix, musicxml_file) ==
    [id   |-> Stem(BaseName(musicxml_file)),
     path |-> musicxml_file,
     md5_checksum |-> compute_checksum(f, musicxml_file, "md5")]

\* build_track_proto(musicxml_file)
build_track_proto(f, root, path_prefix, musicxml_file) ==
    [id   |-> Stem(BaseName(musicxml_file)),
     path |-> path_prefix \o SubSeq(musicxml_file, Len(root) + 1, Len(musicxml_file)),
     md5_checksum |-> compute_checksum(f, musicxml_file, "md5")]

\* _compute_index_internal(path_prefix): the entries of the DatasetIndex
_compute_index_internal(f, root, path_prefix_arg) ==
    LET path_prefix == IF path_prefix_arg # NoPath THEN path_prefix_arg ELSE root
    IN  {build_track_proto(f, root, path_prefix, q) : q \in MusicXmlFiles(f, root)}

\* compute_index() taking an unset root for the current directory.
ComputeIndexInCwd(f, root, path_prefix) ==
    IF root # NoPath /\ ~IsDir(f, root)
    THEN [fs |-> f, err |-> "FileNotFoundError", index |-> {}]
    ELSE [fs |-> WriteFile(f, root \o << <<"index", "json">> >>, "index"),
          err |-> "ok", index |-> _compute_index_internal(f, root, path_prefix)]

\* compute_index(path_prefix): [fs, err, index]
DatasetComputeIndex(f, root, path_prefix) ==
    IF root = NoPath
    THEN [fs |-> f, err |-> "AttributeError", index |-> {}]
    ELSE IF ~IsDir(f, root)
    THEN [fs |-> f, err |-> "FileNotFoundError", index |-> {}]
    ELSE [fs |-> WriteFile(f, root \o << <<"index", "json">> >>, "index"),
          err |-> "ok", index |-> _compute_index_internal(f, root, path_prefix)]

-----------------------------------------------------------------------------
(* The state machine.                                                       *)

OutputPaths == {NoPath, << <<"out">> >>}

PathPrefixes == {NoPath, << <<"gs:">>, <<"bucket">> >>}

\* The prefixes compute_index() is called with: none, a remote one, and the
\* root directory itself, which import_directory_dataset passes when it is
\* given no prefix.
IndexPrefixes(root) == PathPrefixes \cup {root}

\* What a request for url can deliver: the expected body, another archive,
\* something that is no archive, or an HTTP error.
Served(url) ==
    {GoodBody[url], "junk", "fail"} \cup (IF url = "u_main" THEN {"body_alt"} ELSE {})

Urls(md) == {remote_sources[md][i].url : i \in DOMAIN remote_sources[md]}

\* The behaviours of the network during one download(): url -> what it serves.
Nets ==
    [md \in Modes |->
        {net \in [Urls(md) -> {"body_main", "body_scores", "body_h5", "body_plain",
                               "body_alt", "junk", "fail"}] :
            /\ \A u \in Urls(md) : net[u] \in Served(u)
            /\ Cardinality({u \in Urls(md) : net[u] # GoodBody[u]}) <= MaxFaults}]

\* The entry names iterdir() may yield first.  The order decides nothing when
\* every directory that is flattened holds one entry and nothing is merged into
\* an existing directory, which is so unless the root is the temporary one or
\* the two-entry archive body is around.
Picks(f, temp, net) ==
    IF \/ temp
       \/ \E u \in DOMAIN net : net[u] = "body_alt"
       \/ \E q \in DOMAIN f : f[q].data = "body_alt"
    THEN {<<"lmd_matched">>, <<"README">>}
    ELSE {<<"lmd_matched">>}

\* The disks a run can start from: an empty one, and one holding a root
\* directory left by earlier use (an old score and its index).
InitialDisks(md) ==
    LET root == << <<"out">>, root_dir_name(md) >>
        old  == [kind |-> "file", data |-> "old", fresh |-> FALSE]
        dir  == [kind |-> "dir", data |-> "", fresh |-> FALSE]
    IN  { (TempDir :> dir),
          (TempDir :> dir) @@ (<< <<"out">> >> :> dir) @@ (root :> dir)
            @@ ((root \o << <<"old", "mxl">> >>) :> old)
            @@ ((root \o << <<"index", "json">> >>) :> old) }

\* A call as its caller sees it: the operation, its arguments, the root the
\* instance had when it was made, the exception raised ("ok": none), the value
\* returned, and the fetcher's and extractor's calls it made, in order.
Call(op, output_path, temp, overwrite, cleanup, allow_invalid_checksum, root_before, err, ret, index, log) ==
    [op |-> op, output_path |-> output_path, temp |-> temp, overwrite |-> overwrite,
     cleanup |-> cleanup, allow_invalid_checksum |-> allow_invalid_checksum,
     root_before |-> root_before, err |-> err, ret |-> ret, index |-> index, log |-> log]

NoCall == Call("none", NoPath, FALSE, FALSE, FALSE, FALSE, NoPath, "ok", NoPath, {}, <<>>)

Init ==
    /\ mode \in Modes
    /\ fs \in InitialDisks(mode)
    /\ root_dir = NoPath
    /\ last = NoCall
    /\ prev = NoCall
    /\ calls = 0

\* DirectoryDataset.__init__(mode): a new instance on the same disk.
Construct(md) ==
    /\ IF md \in DOMAIN remote_sources
       THEN /\ mode' = md
            /\ root_dir' = NoPath
            /\ last' = Call("init", NoPath, FALSE, FALSE, FALSE, FALSE, root_dir,
                            "ok", NoPath, {}, <<>>)
       ELSE /\ UNCHANGED <<mode, root_dir>>
            /\ last' = Call("init", NoPath, FALSE, FALSE, FALSE, FALSE, root_dir,
                            "AttributeError", NoPath, {}, <<>>)
    /\ prev' = last
    /\ calls' = calls + 1
    /\ UNCHANGED fs

\* download() returns or raises: r is its run.
Returned(output_path, temp, overwrite, cleanup, allow_invalid_checksum, r) ==
    /\ fs' = r.fs
    /\ root_dir' = r.root_dir
    /\ last' = Call("download", output_path, temp, overwrite, cleanup,
                    allow_invalid_checksum, root_dir, r.err,
                    IF r.err = "ok" THEN r.root_dir ELSE NoPath, {}, r.log)

Download(output_path, temp, overwrite, cleanup, allow_invalid_checksum, net, pick) ==
    /\ temp => \A i \in DOMAIN remote_sources[mode] :
                   FreeTemp(fs, remote_sources[mode][i].filename) # {}
    /\ Returned(output_path, temp, overwrite, cleanup, allow_invalid_checksum,
                DatasetDownload(Age(fs), mode, root_dir, output_path, temp, overwrite,
                                cleanup, allow_invalid_checksum, net, pick))
    /\ prev' = last
    /\ calls' = calls + 1
    /\ UNCHANGED mode

\* compute_index() returns or raises: r is its outcome.
Indexed(path_prefix, r) ==
    /\ fs' = r.fs
    /\ last' = Call("compute_index", path_prefix, FALSE, FALSE, FALSE, FALSE,
                    root_dir, r.err, NoPath, r.index, <<>>)

ComputeIndex(path_prefix) ==
    /\ Indexed(path_prefix, DatasetComputeIndex(Age(fs), root_dir, path_prefix))
    /\ prev' = last
    /\ calls' = calls + 1
    /\ UNCHANGED <<mode, root_dir>>

Next ==
    \/ /\ calls < MaxCalls
       /\ \E md \in {mode, "bogus"} : Construct(md)
    \/ /\ calls < MaxCalls
       /\ \E output_path \in OutputPaths, temp, overwrite, cleanup, allow \in BOOLEAN :
             \E net \in Nets[mode] : \E pick \in Picks(fs, temp, net) :
                 Download(output_path, temp, overwrite, cleanup, allow, net, pick)
    \/ /\ calls < MaxCalls
       /\ \E path_prefix \in IndexPrefixes(root_dir) : ComputeIndex(path_prefix)

Spec == Init /\ [][Next]_vars

-----------------------------------------------------------------------------
(* Properties of the calls.  `last` is the call that has just returned and  *)
(* `prev` the one before it, on the same disk.                              *)

IsDownload(c) == c.op = "download"

\* The network requests a call made.
Transfers(c) == {i \in DOMAIN c.log : c.log[i].ev = "transfer"}

SameInputs(c, d) ==
    /\ c.output_path = d.output_path
    /\ c.temp = d.temp
    /\ c.overwrite = d.overwrite
    /\ c.cleanup = d.cleanup
    /\ c.allow_invalid_checksum = d.allow_invalid_checksum

\* download() has been run twice in a row on the instance, with identical
\* inputs and overwrite=false.
RunTwice == IsDownload(prev) /\ IsDownload(last) /\ SameInputs(prev, last) /\ ~last.overwrite

Fetches(c) == {i \in DOMAIN c.log : c.log[i].ev = "fetch"}

InvalidSourceSet == main_sources_count(remote_sources[mode]) # 1

\* C2: with zero or with two or more main sources every download() fails with
\* InvalidSourceSet and makes no call of the fetcher, whatever the options and
\* whatever is on disk.
C2_InvalidSourceSetAlwaysFails ==
    (IsDownload(last) /\ InvalidSourceSet) =>
        last.err = "InvalidSourceSet" /\ Fetches(last) = {}

\* What is on disk, without the marks of the model.
Content(f) == [q \in DOMAIN f |-> [kind |-> f[q].kind, data |-> f[q].data]]

\* C3: a download() that fails with InvalidSourceSet leaves the filesystem and
\* root_dir exactly as they were before the call.
C3_InvalidSourceSetNoSideEffect ==
    [][(IsDownload(last') /\ calls' = calls + 1 /\ last'.err = "InvalidSourceSet")
        => (Content(fs') = Content(fs) /\ root_dir' = root_dir)]_vars

\* The entries below the directory root.
Under(f, root) == {q \in DOMAIN f : IsPrefix(root, q) /\ q # root}

\* The data of the files an archive served for url can hold.
MemberData(url) ==
    UNION {{ArchiveTree(b)[r].data : r \in {x \in DOMAIN ArchiveTree(b) :
                                                ArchiveTree(b)[x].kind = "file"}} :
           b \in {d \in Served(url) : IsArchive(d)}}

\* The directory root holds content of the source: a member of its archive, or
\* the fetched file itself with something in it.
Holds(f, root, source) ==
    IF source.archive
    THEN \E q \in Under(f, root) : IsFile(f, q) /\ f[q].data \in MemberData(source.url)
    ELSE \E q \in Under(f, root) :
             IsFile(f, q) /\ BaseName(q) = source.filename /\ f[q].data # ""

HoldsEverySource(f, root) ==
    /\ root # NoPath
    /\ IsDir(f, root)
    /\ \A i \in DOMAIN remote_sources[mode] : Holds(f, root, remote_sources[mode][i])

\* Nothing on disk predates the calls made so far.
NothingOld == \A q \in DOMAIN fs : fs[q].data # "old"

\* C4 (on a disk where everything was put by the calls themselves): whenever
\* download() returns successfully, root_dir is an existing directory holding
\* content of every source declared for the mode.
C4_SuccessHoldsEverySource ==
    (IsDownload(last) /\ last.err = "ok" /\ NothingOld) => HoldsEverySource(fs, root_dir)

\* A download() with overwrite=true and temp=false is made while its root
\* directory exists.
OverwriteOnExistingRoot ==
    /\ IsDownload(last') /\ calls' = calls + 1
    /\ last'.overwrite /\ ~last'.temp
    /\ IsDir(fs, root_dir_path(mode, last'.output_path))

\* Every declared source was requested from the network by the call.
TransferredEvery(c) ==
    \A i \in DOMAIN remote_sources[mode] :
        \E j \in Transfers(c) : c.log[j].url = remote_sources[mode][i].url

\* Every call of the fetcher led to a network request, none took an existing file.
NoShortCircuit(c) ==
    /\ \A j \in DOMAIN c.log : c.log[j].ev # "cached"
    /\ \A j \in Fetches(c) : j + 1 \in Transfers(c)

\* Whatever is at the root path or below it was put there by the current call.
NoPriorContent(f, root) == \A q \in DOMAIN f : IsPrefix(root, q) => f[q].fresh

\* C5 as stated: download() with overwrite=true (temp=false) on an existing
\* root directory always transfers every declared source from the network,
\* takes no existing-file short-circuit, and leaves none of the prior content
\* in the root directory.
C5_AlwaysTransfersEverySource ==
    [][OverwriteOnExistingRoot =>
          /\ TransferredEvery(last')
          /\ NoShortCircuit(last')
          /\ NoPriorContent(fs', root_dir_path(mode, last'.output_path))]_vars

\* C5, amended: such a call takes no existing-file short-circuit (every source
\* it fetches is requested from the network), has transferred every declared
\* source when it returns successfully, and, successful or not, leaves none of
\* the prior content at the root path.
C5_OverwriteFetchesAfresh ==
    [][OverwriteOnExistingRoot =>
          /\ NoShortCircuit(last')
          /\ last'.err = "ok" => TransferredEvery(last')
          /\ NoPriorContent(fs', root_dir_path(mode, last'.output_path))]_vars

\* A successful download, then a successful download with overwrite=true to the
\* same output path.
C5_OverwroteExistingRoot ==
    /\ IsDownload(prev) /\ prev.err = "ok" /\ ~prev.temp
    /\ IsDownload(last) /\ last.overwrite /\ ~last.temp
    /\ last.output_path = prev.output_path
    /\ last.err = "ok" /\ TransferredEvery(last)

\* The declared source with the given url, and its place in the declaration.
IndexOf(url) == CHOOSE i \in DOMAIN remote_sources[mode] : remote_sources[mode][i].url = url

SourceOf(url) == remote_sources[mode][IndexOf(url)]

\* The calls of the fetcher for auxiliary sources.
AuxFetches(c) == {j \in Fetches(c) : ~SourceOf(c.log[j].url).main_source}

\* C6: within one download() no auxiliary source is fetched before the main
\* source has been fetched and processed and the root set by this run; every
\* auxiliary fetch targets <that root>/<filename>; auxiliary sources are
\* fetched in their declared order.
C6_MainSourceFirst ==
    IsDownload(last) =>
        /\ \A j \in AuxFetches(last) :
              \E k \in 1..(j - 1) :
                  /\ last.log[k].ev = "set_root"
                  /\ SourceOf(last.log[k].url).main_source
                  /\ \E m \in 1..(k - 1) : /\ last.log[m].ev = "fetch"
                                           /\ last.log[m].url = last.log[k].url
                  /\ SourceOf(last.log[k].url).archive =>
                         \E m \in 1..(k - 1) : /\ last.log[m].ev = "extract"
                                               /\ last.log[m].url = last.log[k].url
                  /\ last.log[j].path =
                         last.log[k].path \o <<SourceOf(last.log[j].url).filename>>
        /\ \A j1, j2 \in AuxFetches(last) :
              j1 < j2 => IndexOf(last.log[j1].url) < IndexOf(last.log[j2].url)

\* A download() that fetched two auxiliary sources, one of them declared
\* before the main source.
C6_TwoAuxiliaryFetched ==
    /\ IsDownload(last)
    /\ Cardinality(AuxFetches(last)) >= 2
    /\ \E j \in AuxFetches(last) :
          \E i \in DOMAIN remote_sources[mode] :
              remote_sources[mode][i].main_source /\ IndexOf(last.log[j].url) < i

\* download() raised while it was processing an auxiliary source.
AuxFailed(c) ==
    /\ IsDownload(c) /\ c.err # "ok"
    /\ AuxFetches(c) # {}

\* What the main source delivered to the call.
MainBodies(c) ==
    {c.log[j].data : j \in {i \in DOMAIN c.log : /\ c.log[i].ev \in {"transfer", "cached"}
                                                  /\ SourceOf(c.log[i].url).main_source}}

\* Every file of the main archive is below root.
MainFilesKept(f, root, c) ==
    \A b \in MainBodies(c) :
        \A r \in DOMAIN ArchiveTree(b) :
            ArchiveTree(b)[r].kind = "file" =>
                \E q \in Under(f, root) : IsFile(f, q) /\ f[q].data = ArchiveTree(b)[r].data

\* C7: when the processing of an auxiliary source fails, root_dir stays the
\* root directory the main source established in this run, and the main
\* source's files are still in it.
C7_AuxFailureKeepsRoot ==
    AuxFailed(last) =>
        /\ \E k \in DOMAIN last.log : /\ last.log[k].ev = "set_root"
                                       /\ root_dir = last.log[k].path
        /\ IsDir(fs, root_dir)
        /\ MainBodies(last) # {}
        /\ MainFilesKept(fs, root_dir, last)

\* An auxiliary archive was fetched and its extraction failed.
C7_AuxExtractionFailed ==
    /\ AuxFailed(last)
    /\ \E j \in DOMAIN last.log : /\ last.log[j].ev = "extract"
                                   /\ ~SourceOf(last.log[j].url).main_source

\* The root directory a download() establishes: <temporary directory> or
\* <output path>, then the root directory name.
RunRoot(c) ==
    IF c.temp THEN TempDir \o <<root_dir_name(mode)>>
    ELSE root_dir_path(mode, c.output_path)

\* download() without overwrite on an instance whose root_dir was set by a run
\* to another place.
RootFromDifferentRun(c) ==
    /\ IsDownload(c) /\ ~c.overwrite
    /\ c.root_before # NoPath /\ c.root_before # RunRoot(c)

RootWasSet(c) == \E k \in DOMAIN c.log : c.log[k].ev \in {"set_root", "noop"}

\* C8 as stated: download() without overwrite on an instance whose root_dir is
\* set from a different run fails with PreconditionError and leaves root_dir
\* unchanged.
C8_FailsOnRootFromDifferentRun ==
    RootFromDifferentRun(last) =>
        last.err = "PreconditionError" /\ root_dir = last.root_before

\* C8, amended: such a call is not refused.  It runs like any other: when it
\* returns successfully root_dir is the root directory of the new run, and
\* root_dir keeps its old value only when the call fails before it has
\* processed the main source.
C8_RootIsRebound ==
    RootFromDifferentRun(last) =>
        /\ last.err # "PreconditionError"
        /\ last.err = "ok" => RootWasSet(last)
        /\ RootWasSet(last) => root_dir = RunRoot(last) /\ root_dir # last.root_before
        /\ ~RootWasSet(last) => root_dir = last.root_before

\* A successful download, then a successful one to another place.
C8_SecondRunElsewhere ==
    /\ RootFromDifferentRun(last)
    /\ IsDownload(prev) /\ prev.err = "ok"
    /\ last.err = "ok" /\ Transfers(last) # {}
    /\ root_dir # last.root_before

MainMismatches(c) ==
    {j \in Transfers(c) :
        /\ SourceOf(c.log[j].url).main_source
        /\ c.log[j].data # "fail"
        /\ HexDigest(SourceOf(c.log[j].url).checksum_type, c.log[j].data)
               # SourceOf(c.log[j].url).checksum}

\* C10: when the content transferred for the main source does not hash to its
\* checksum and allow_invalid_checksum=false, download() raises
\* ChecksumMismatch, root_dir is not set by the run, the root directory is not
\* created, and the mismatching file is left at the fetch target.
C10_MainChecksumMismatch ==
    (IsDownload(last) /\ ~last.allow_invalid_checksum) =>
        \A j \in MainMismatches(last) :
            /\ last.err = "ChecksumMismatch"
            /\ ~RootWasSet(last)
            /\ root_dir = last.root_before
            /\ Exists(fs, RunRoot(last)) => ~fs[RunRoot(last)].fresh
            /\ IsFile(fs, last.log[j].path)
            /\ fs[last.log[j].path].data = last.log[j].data

\* The main source delivered something else than declared, to a strict run.
C10_MismatchRaised ==
    /\ IsDownload(last) /\ ~last.allow_invalid_checksum
    /\ MainMismatches(last) # {}
    /\ last.err = "ChecksumMismatch"

-----------------------------------------------------------------------------
(* The utilities called on their own: download(), validate_checksum().      *)

Algorithms == {"md5", "sha256"}

\* str.upper() of a hex digest and str.lower() of what it gives: the digits
\* stay and the letters change case, written here with a mark in front.
UpperHex(d) == "^" \o d

Digests == {HexDigest(a, b) : a \in Algorithms,
                              b \in {"body_main", "body_alt", "junk", ""}}

LowerHex(s) ==
    IF \E d \in Digests : s = UpperHex(d)
    THEN CHOOSE d \in Digests : s = UpperHex(d)
    ELSE s

\* The file a fetch is aimed at.
FetchTarget == << <<"out">>, <<"lmd_matched", "tar", "gz">> >>

\* The disks the utilities start from: the target is missing, holds the
\* expected body, holds something else, or is a directory.
UtilDisks ==
    LET dir  == [kind |-> "dir", data |-> "", fresh |-> FALSE]
        base == (TempDir :> dir) @@ (<< <<"out">> >> :> dir)
    IN  { base,
          base @@ (FetchTarget :> [kind |-> "file", data |-> "body_main", fresh |-> FALSE]),
          base @@ (FetchTarget :> [kind |-> "file", data |-> "junk", fresh |-> FALSE]),
          base @@ (FetchTarget :> dir) }

\* A call of a utility as its caller sees it.
UtilCall(op, args, err, ret, log) ==
    [op |-> op, args |-> args, err |-> err, ret |-> ret, log |-> log]

UtilInit ==
    /\ mode = "full"
    /\ fs \in UtilDisks
    /\ root_dir = NoPath
    /\ last = UtilCall("none", <<>>, "ok", NoPath, <<>>)
    /\ prev = UtilCall("none", <<>>, "ok", NoPath, <<>>)
    /\ calls = 0

\* utilities.download() returns or raises: r is its result.
Fetched(args, r) ==
    /\ fs' = r.fs
    /\ last' = UtilCall("download", args, r.err, r.path, r.events)

Fetch(url, output_file_path, temp, force_overwrite, checksum, checksum_type, allow_invalid_checksum, served) ==
    /\ (temp \/ output_file_path = NoPath) => FreeTemp(fs, FetchTarget[2]) # {}
    /\ Fetched([url |-> url, output_file_path |-> output_file_path, temp |-> temp,
                force_overwrite |-> force_overwrite, checksum |-> checksum,
                checksum_type |-> checksum_type,
                allow_invalid_checksum |-> allow_invalid_checksum],
               UtilDownload(Age(fs), url, output_file_path, temp, FetchTarget[2],
                            force_overwrite, checksum, checksum_type,
                            allow_invalid_checksum, served))
    /\ prev' = last
    /\ calls' = calls + 1
    /\ UNCHANGED <<mode, root_dir>>

\* validate_checksum(file_path, checksum, checksum_type) returns.
Validate(file_path, checksum, checksum_type) ==
    /\ IsFile(fs, file_path)
    /\ fs' = Age(fs)
    /\ last' = UtilCall("validate_checksum",
                        [file_path |-> file_path, checksum |-> checksum,
                         checksum_type |-> checksum_type],
                        "ok", validate_checksum(fs, file_path, checksum, checksum_type), <<>>)
    /\ prev' = last
    /\ calls' = calls + 1
    /\ UNCHANGED <<mode, root_dir>>

UtilNext ==
    \/ /\ calls < MaxCalls
       /\ \E output_file_path \in {NoPath, FetchTarget},
             temp, force_overwrite, allow \in BOOLEAN,
             checksum_type \in Algorithms, served \in Served("u_main") :
             \E checksum \in {HexDigest(checksum_type, "body_main"),
                               UpperHex(HexDigest(checksum_type, "body_main"))} :
                 Fetch("u_main", output_file_path, temp, force_overwrite, checksum,
                       checksum_type, allow, served)
    \/ /\ calls < MaxCalls
       /\ \E file_path \in DOMAIN fs, checksum_type \in Algorithms :
             \E checksum \in Digests \cup {UpperHex(d) : d \in Digests} :
                 Validate(file_path, checksum, checksum_type)

UtilSpec == UtilInit /\ [][UtilNext]_vars

IsFetch(c) == c.op = "download"

\* utilities.download() is called, not ephemeral, with force_overwrite off, for
\* a target that is an existing file.
FetchOfExistingFile ==
    /\ IsFetch(last') /\ calls' = calls + 1
    /\ ~last'.args.temp /\ ~last'.args.force_overwrite
    /\ last'.args.output_file_path # NoPath
    /\ IsFile(fs, last'.args.output_file_path)

\* C11: such a fetch makes no network transfer and leaves the file as it is;
\* with allow_invalid_checksum=false the file is returned exactly when its
\* digest is the expected one, and the call fails with ChecksumMismatch
\* otherwise; with allow_invalid_checksum=true the file is returned.
C11_ExistingFileIsValidated ==
    [][FetchOfExistingFile =>
          /\ Transfers(last') = {}
          /\ Content(fs') = Content(fs)
          /\ last'.err \in {"ok", "ChecksumMismatch"}
          /\ last'.err = "ok" => last'.ret = last'.args.output_file_path
          /\ last'.err = "ok" <=>
                \/ last'.args.allow_invalid_checksum
                \/ compute_checksum(fs, last'.args.output_file_path,
                                    last'.args.checksum_type) = last'.args.checksum]_vars

\* A strict fetch returned the file that was there, and one raised for it.
C11_CachedFileReturned ==
    /\ IsFetch(last) /\ ~last.args.allow_invalid_checksum
    /\ \E j \in DOMAIN last.log : last.log[j].ev = "cached"
    /\ last.err = "ok" /\ last.ret = FetchTarget
    /\ IsFetch(prev) /\ prev.err = "ChecksumMismatch" /\ Transfers(prev) = {}

IsValidate(c) == c.op = "validate_checksum"

\* C13: for md5 and sha256 and every existing file, validate_checksum of the
\* file against its own compute_checksum under the same algorithm is true.
C13_ValidateAcceptsComputed ==
    (IsValidate(last) /\ last.args.checksum =
          compute_checksum(fs, last.args.file_path, last.args.checksum_type))
        => last.ret = TRUE

\* Both algorithms have validated a file against its own digest.
C13_BothAlgorithmsValidated ==
    /\ IsValidate(last) /\ IsValidate(prev)
    /\ last.args.checksum_type = "md5" /\ prev.args.checksum_type = "sha256"
    /\ last.args.checksum = compute_checksum(fs, last.args.file_path, "md5")
    /\ prev.args.checksum = compute_checksum(fs, prev.args.file_path, "sha256")
    /\ last.ret = TRUE /\ prev.ret = TRUE

\* C14: validate_checksum returns true exactly when the expected digest equals
\* the computed one ignoring letter case.
C14_CaseInsensitiveComparison ==
    IsValidate(last) =>
        (last.ret = TRUE <=>
            LowerHex(last.args.checksum) =
                LowerHex(compute_checksum(fs, last.args.file_path, last.args.checksum_type)))

\* C20: a fetch that fails with TransferError leaves no file at its target
\* path when there was none before the call.
C20_TransferErrorLeavesNoFile ==
    [][(/\ IsFetch(last') /\ calls' = calls + 1
        /\ last'.err = "TransferError"
        /\ ~last'.args.temp /\ last'.args.output_file_path # NoPath
        /\ ~Exists(fs, last'.args.output_file_path))
       => ~Exists(fs', last'.args.output_file_path)]_vars

\* What a caller can observe of a download(): the root it set, the files on
\* disk, the number of transfers and the error.
Outcome(r) ==
    <<r.root_dir, Content(r.fs),
      Cardinality({i \in DOMAIN r.log : r.log[i].ev = "transfer"}), r.err>>

TempRun(output_path, overwrite, cleanup, allow_invalid_checksum, net, pick) ==
    DatasetDownload(Age(fs), mode, root_dir, output_path, TRUE, overwrite, cleanup,
                    allow_invalid_checksum, net, pick)

\* C12: with temp=true, output_path and overwrite are ignored: from the same
\* filesystem and under the same network, two download() calls that differ
\* only in output_path or overwrite have the same outcome.
C12_TempIgnoresPathAndOverwrite ==
    (/\ calls < MaxCalls
     /\ \A i \in DOMAIN remote_sources[mode] :
            FreeTemp(fs, remote_sources[mode][i].filename) # {})
    => \A cleanup, allow \in BOOLEAN, net \in Nets[mode] :
          \A pick \in Picks(fs, TRUE, net) :
             \A output_path \in OutputPaths, overwrite \in BOOLEAN :
                Outcome(TempRun(output_path, overwrite, cleanup, allow, net, pick)) =
                    Outcome(TempRun(NoPath, FALSE, cleanup, allow, net, pick))

IsIndex(c) == c.op = "compute_index" /\ c.err = "ok"

C16_EntryIdsUnique ==
    IsIndex(last) => \A e1, e2 \in last.index : e1.id = e2.id => e1 = e2

\* C17: constructing an instance with a mode that is no key of remote_sources
\* fails with ValueError, and leaves the disk and the instance as they were.
C17_InvalidModeRaisesValueError ==
    [][(last'.op = "init" /\ calls' = calls + 1 /\ last'.err # "ok")
          => /\ last'.err = "ValueError"
             /\ UNCHANGED <<fs, mode, root_dir>>]_vars

-----------------------------------------------------------------------------
(* The import script (scripts/import_dataset.import_directory_dataset).     *)

\* The modes of the registered datasets: one archive as main source, with or
\* without auxiliary sources.
ImportModes == {"full", "matched"}

\* What import_directory_dataset returns or raises: the run of download(),
\* then the manifest.
Imported(d, err, index, log) ==
    [fs |-> d.fs, root_dir |-> d.root_dir, err |-> err,
     ret |-> IF err = "ok" THEN d.root_dir ELSE NoPath, index |-> index, log |-> log]

\* Line 26: compute_index(path_prefix=index_path_prefix or the root), x its outcome
ImportIndexed(d, path_prefix, x) ==
    Imported([fs |-> x.fs, root_dir |-> d.root_dir], x.err, x.index,
             d.log \o <<Event("index", "", path_prefix, "")>>)

\* Lines 19-26 on the new instance, d being the run of its download()
ImportDownloaded(d, index_path_prefix) ==
    IF d.err # "ok"
    THEN Imported(d, d.err, {}, d.log)
    ELSE ImportIndexed(d, IF index_path_prefix # NoPath THEN index_path_prefix ELSE d.root_dir,
                       DatasetComputeIndex(d.fs, d.root_dir,
                           IF index_path_prefix # NoPath THEN index_path_prefix
                                                         ELSE d.root_dir))

\* import_directory_dataset(dataset_mode=md, ...) on filesystem f
ImportDirectoryDataset(f, md, output_path, index_path_prefix, temp, overwrite, cleanup, allow_invalid_checksum, net, pick) ==
    IF md \notin DOMAIN remote_sources
    THEN Imported([fs |-> f, root_dir |-> NoPath], "AttributeError", {},
                  <<Event("init", "", NoPath, md)>>)
    ELSE ImportDownloaded(
             DatasetDownload(f, md, NoPath, output_path, temp, overwrite, cleanup,
                             allow_invalid_checksum, net, pick),
             index_path_prefix)

\* The output directory the imports are made into.
ImportOutputPath == << <<"out">> >>

\* The disks an import can start from: the root directory present or absent,
\* the main archive present or absent.
ImportDisks(md) ==
    LET archive == ImportOutputPath \o <<remote_sources[md][1].filename>>
        dir     == [kind |-> "dir", data |-> "", fresh |-> FALSE]
    IN  UNION {{d, (archive :> [kind |-> "file", data |-> "body_main", fresh |-> FALSE])
                      @@ (ImportOutputPath :> dir) @@ d} : d \in InitialDisks(md)}

ImportInit ==
    /\ mode \in ImportModes
    /\ fs \in ImportDisks(mode)
    /\ root_dir = NoPath
    /\ last = NoCall
    /\ prev = NoCall
    /\ calls = 0

ImportReturned(output_path, temp, overwrite, cleanup, allow_invalid_checksum, r) ==
    /\ fs' = r.fs
    /\ root_dir' = r.root_dir
    /\ last' = Call("import", output_path, temp, overwrite, cleanup,
                    allow_invalid_checksum, NoPath, r.err, r.ret, r.index, r.log)

Import(md, output_path, index_path_prefix, temp, overwrite, cleanup, allow_invalid_checksum, net, pick) ==
    /\ temp => \A i \in DOMAIN remote_sources[mode] :
                   FreeTemp(fs, remote_sources[mode][i].filename) # {}
    /\ ImportReturned(output_path, temp, overwrite, cleanup, allow_invalid_checksum,
                      ImportDirectoryDataset(Age(fs), md, output_path, index_path_prefix,
                                             temp, overwrite, cleanup,
                                             allow_invalid_checksum, net, pick))
    /\ prev' = last
    /\ calls' = calls + 1
    /\ UNCHANGED mode

ImportNext ==
    \/ /\ calls < MaxCalls
       /\ \E index_path_prefix \in PathPrefixes, temp, overwrite, cleanup, allow \in BOOLEAN :
             \E net \in Nets[mode] : \E pick \in Picks(fs, temp, net) :
                 Import(mode, ImportOutputPath, index_path_prefix, temp, overwrite,
                        cleanup, allow, net, pick)
    \/ /\ calls < MaxCalls
       /\ \E net \in Nets[mode] :
             Import("bogus", ImportOutputPath, NoPath, FALSE, FALSE, FALSE, FALSE, net,
                    <<"lmd_matched">>)

ImportSpec == ImportInit /\ [][ImportNext]_vars

\* The stored reference index: the manifest of an import onto a disk that
\* holds nothing, every request delivering the published body.
ReferenceIndex(md, output_path, index_path_prefix) ==
    ImportDirectoryDataset((TempDir :> [kind |-> "dir", data |-> "", fresh |-> FALSE]),
                           md, output_path, index_path_prefix, FALSE, TRUE, TRUE, FALSE,
                           [u \in Urls(md) |-> GoodBody[u]], <<"lmd_matched">>).index

\* The prefix the import was called with (none: the root was used).
PrefixGiven(c) ==
    IF c.log[Len(c.log)].path = c.ret THEN NoPath ELSE c.log[Len(c.log)].path

\* An import with temp=False and overwrite=True of an existing mode, every
\* request of which delivered the published body.
OverwritingImport(c) ==
    /\ c.op = "import" /\ ~c.temp /\ c.overwrite
    /\ c.err # "AttributeError"
    /\ \A i \in DOMAIN c.log :
          c.log[i].ev = "transfer" => c.log[i].data = GoodBody[c.log[i].url]

\* C18: an import with temp=False and overwrite=True succeeds whatever the
\* disk held before, returns a root directory that exists, and returns the
\* reference manifest, the same as an equal import before it returned.
C18_OverwritingImportIsReproducible ==
    OverwritingImport(last) =>
        /\ last.err = "ok"
        /\ IsDir(fs, last.ret)
        /\ last.index = ReferenceIndex(mode, last.output_path, PrefixGiven(last))
        /\ (/\ OverwritingImport(prev) /\ prev.err = "ok"
            /\ prev.output_path = last.output_path
            /\ PrefixGiven(prev) = PrefixGiven(last))
           => prev.index = last.index

\* An overwriting import succeeded after an import that returned another
\* manifest for the same place.
C18_ImportedOverEarlierRun ==
    /\ OverwritingImport(last) /\ last.err = "ok" /\ last.index # {}
    /\ prev.op = "import" /\ prev.err = "ok" /\ prev.ret = last.ret
    /\ prev.index # {}
    /\ {e.id : e \in prev.index} # {e.id : e \in last.index}

\* download() has fetched the main source of mode "plain", which is not an
\* archive, and the transfer delivered the published body.
FetchedPlainMain(c) ==
    /\ IsDownload(c) /\ mode = "plain"
    /\ \E i \in DOMAIN c.log :
          /\ c.log[i].ev = "transfer" /\ c.log[i].url = "u_plain"
          /\ c.log[i].data = GoodBody["u_plain"]

\* Where the fetcher wrote the main source.
FetchedPath(c) ==
    c.log[CHOOSE i \in DOMAIN c.log : c.log[i].ev = "transfer"].path

\* C19: for a main source that is not an archive, the download() that fetched
\* it succeeds, the content is relocated into <parent of the fetched
\* file>/<root_dir_name>, the source location is removed, and root_dir is
\* that directory.
C19_PlainMainIsRelocated ==
    FetchedPlainMain(last) =>
        /\ last.err = "ok"
        /\ root_dir = Parent(FetchedPath(last)) \o <<root_dir_name(mode)>>
        /\ IsDir(fs, root_dir) /\ Under(fs, root_dir) # {}
        /\ ~Exists(fs, FetchedPath(last))

-----------------------------------------------------------------------------
(* The archive engine on its own (utilities.extract_archive).               *)

\* The archive names extract_archive is given: one per suffix of
\* _SUPPORTED_ARCHIVES, the bz2 suffixes, and one with no archive suffix.
ArchiveNames ==
    {<<"x">> \o _SUPPORTED_ARCHIVES[i] : i \in DOMAIN _SUPPORTED_ARCHIVES}
        \cup {<<"x", "tar", "bz2">>, <<"x", "tbz2">>, <<"x", "dat">>}

WorkDir == << <<"w">> >>

ExtractTarget == WorkDir \o << <<"out">> >>

\* gzip.open(...).read(): what a gzip stream decompresses to.  An empty file
\* reads as an empty stream.
Gunzip(data) ==
    CASE data = "gz_notes" -> "notes"
      [] data = "" -> ""
      [] OTHER -> "BadGzipFile"

\* The disks an extraction starts from: one archive in the working directory,
\* the output path absent, a directory holding something, or a file.
ExtractDisks ==
    LET dir(d)  == [kind |-> "dir", data |-> "", fresh |-> FALSE]
        file(d) == [kind |-> "file", data |-> d, fresh |-> FALSE]
        base(n, b) == (WorkDir :> dir("")) @@ ((WorkDir \o <<n>>) :> file(b))
    IN  UNION {{base(n, b),
                base(n, b) @@ (ExtractTarget :> dir(""))
                    @@ ((ExtractTarget \o << <<"old">> >>) :> dir(""))
                    @@ ((ExtractTarget \o << <<"old">>, <<"o", "txt">> >>) :> file("text_o")),
                base(n, b) @@ (ExtractTarget :> file("gz_notes"))}
               : n \in ArchiveNames, b \in {"body_wrapper", "body_alt", "junk", "gz_notes"}}

ExtractInit ==
    /\ mode = "full"
    /\ fs \in ExtractDisks
    /\ root_dir = NoPath
    /\ last = UtilCall("none", <<>>, "ok", NoPath, <<>>)
    /\ prev = UtilCall("none", <<>>, "ok", NoPath, <<>>)
    /\ calls = 0

\* extract_archive() returns or raises: r is its outcome.
Extracted(args, r) ==
    /\ fs' = r.fs
    /\ last' = UtilCall("extract_archive", args, r.err, r.path, <<>>)

Extract(archive_path, output_path, move_root_dir, kind, cleanup, pick) ==
    /\ IsFile(fs, archive_path)
    /\ Extracted([archive_path |-> archive_path, output_path |-> output_path,
                  move_root_dir |-> move_root_dir, kind |-> kind, cleanup |-> cleanup,
                  pick |-> pick],
                 extract_archive(Age(fs), archive_path, output_path, move_root_dir, kind,
                                 cleanup, pick))
    /\ prev' = last
    /\ calls' = calls + 1
    /\ UNCHANGED <<mode, root_dir>>

ExtractNext ==
    /\ calls < MaxCalls
    /\ \E output_path \in {NoPath, ExtractTarget}, move_root_dir, cleanup \in BOOLEAN,
          kind \in {NoKind, <<"zip">>, <<"rar">>},
          pick \in {<<"wrapper">>, <<"lmd_matched">>, <<"README">>, <<"old">>} :
          \E n \in ArchiveNames :
              Extract(WorkDir \o <<n>>, output_path, move_root_dir, kind, cleanup, pick)

ExtractSpec == ExtractInit /\ [][ExtractNext]_vars

IsExtract(c) == c.op = "extract_archive"

\* C21: the archive is deleted only by an extract_archive that succeeds with
\* cleanup=true: after a call that raised, and after any call with
\* cleanup=false, the archive file still exists.
C21_ArchiveKeptUnlessSuccess ==
    [][(IsExtract(last') /\ calls' = calls + 1
            /\ (last'.err # "ok" \/ ~last'.args.cleanup))
          => IsFile(fs', last'.args.archive_path)]_vars

\* The output path and the kind an extract_archive call works with.
OutputOf(args) ==
    IF args.output_path # NoPath THEN args.output_path
    ELSE Parent(args.archive_path) \o <<Stem(BaseName(args.archive_path))>>

KindOf(args) ==
    IF args.kind = NoKind THEN _infer_archive_type(args.archive_path) ELSE args.kind

\* The top-level entries of the extracted tree: what output_path holds when
\* the extraction step of the call is done.
TopLevel(f, args) ==
    IterDir(Unpack(f, args.archive_path, OutputOf(args), KindOf(args)).fs, OutputOf(args))

\* C22: an extract_archive with move_root_dir=true whose extracted tree does
\* not have exactly one top-level entry does not return with one entry's
\* content moved up next to its siblings: when it returns, every top-level
\* entry is where the extraction put it.
C22_NoMergeOfSiblings ==
    [][(/\ IsExtract(last') /\ calls' = calls + 1
        /\ last'.args.move_root_dir /\ last'.err = "ok"
        /\ Cardinality(TopLevel(fs, last'.args)) # 1)
       => IterDir(fs', OutputOf(last'.args)) = TopLevel(fs, last'.args)]_vars

\* extract_archive is called on the archive whose single top-level entry is
\* the directory wrapper/ holding a.txt, into an output path that holds
\* nothing, and its extraction step goes through.
ExtractsWrapper ==
    /\ IsExtract(last') /\ calls' = calls + 1
    /\ fs[last'.args.archive_path].data = "body_wrapper"
    /\ ~IsFile(fs, OutputOf(last'.args)) /\ IterDir(fs, OutputOf(last'.args)) = {}
    /\ Unpack(fs, last'.args.archive_path, OutputOf(last'.args), KindOf(last'.args)).err = "ok"

\* C23: such a call succeeds; with move_root_dir=true a.txt is at
\* output_path/a.txt and output_path/wrapper is gone, with
\* move_root_dir=false a.txt is at output_path/wrapper/a.txt.
C23_WrapperIsFlattened ==
    [][ExtractsWrapper =>
          /\ last'.err = "ok" /\ last'.ret = OutputOf(last'.args)
          /\ last'.args.move_root_dir =>
                /\ IsFile(fs', OutputOf(last'.args) \o << <<"a", "txt">> >>)
                /\ fs'[OutputOf(last'.args) \o << <<"a", "txt">> >>].data = "text_a"
                /\ ~Exists(fs', OutputOf(last'.args) \o << <<"wrapper">> >>)
          /\ ~last'.args.move_root_dir =>
                /\ IsFile(fs', OutputOf(last'.args) \o << <<"wrapper">>, <<"a", "txt">> >>)
                /\ fs'[OutputOf(last'.args) \o << <<"wrapper">>, <<"a", "txt">> >>].data = "text_a"
                /\ ~Exists(fs', OutputOf(last'.args) \o << <<"a", "txt">> >>)]_vars

\* The wrapper archive was extracted and flattened, after it had been
\* extracted elsewhere without flattening.
C23_WrapperFlattened ==
    /\ IsExtract(last) /\ last.err = "ok" /\ last.args.move_root_dir
    /\ IsFile(fs, OutputOf(last.args) \o << <<"a", "txt">> >>)
    /\ fs[OutputOf(last.args) \o << <<"a", "txt">> >>].fresh
    /\ IsExtract(prev) /\ prev.err = "ok" /\ ~prev.args.move_root_dir
    /\ IsFile(fs, OutputOf(prev.args) \o << <<"wrapper">>, <<"a", "txt">> >>)

\* The supported-suffix table as the specification gives it.
SupportedSuffixes ==
    { <<"zip">>, <<"tar">>, <<"tar", "gz">>, <<"tgz">>, <<"tar", "xz">>, <<"txz">>,
      <<"tar", "bz2">>, <<"tbz">>, <<"gz">>, <<"xz">> }

\* The suffix of the table a file name ends with, the container suffix when a
\* compound one matches; NoKind when none does.
SuffixOf(name) ==
    LET hits == {sfx \in SupportedSuffixes : EndsWith(name, sfx)}
    IN  IF hits = {} THEN NoKind
        ELSE CHOOSE sfx \in hits : \A other \in hits : Len(other) <= Len(sfx)

\* C24: without an explicit kind, extract_archive works with the kind the
\* file name's suffix has in the supported table; a file name with no suffix
\* of the table fails with UnsupportedFormat and leaves the disk as it was.
C24_KindInferredFromSuffix ==
    [][(IsExtract(last') /\ calls' = calls + 1 /\ last'.args.kind = NoKind)
          => IF SuffixOf(BaseName(last'.args.archive_path)) # NoKind
             THEN /\ KindOf(last'.args) = SuffixOf(BaseName(last'.args.archive_path))
                  /\ last'.err # "UnsupportedFormat"
             ELSE /\ last'.err = "UnsupportedFormat"
                  /\ Content(fs') = Content(fs)]_vars

\* C25: a successful extract_archive of a standalone gz or xz archive leaves
\* at output_path a file holding the decompressed content of the archive.
C25_StandaloneDecompressed ==
    [][(/\ IsExtract(last') /\ calls' = calls + 1
        /\ KindOf(last'.args) \in { <<"gz">>, <<"xz">> }
        /\ last'.err = "ok")
       => /\ IsFile(fs', OutputOf(last'.args))
          /\ fs'[OutputOf(last'.args)].data = Gunzip(fs[last'.args.archive_path].data)]_vars

\* A file whose digest is not the expected one sits at the persistent target
\* of a fetch.
StaleTarget(f, args) ==
    /\ ~args.temp /\ args.output_file_path # NoPath
    /\ IsFile(f, args.output_file_path)
    /\ compute_checksum(f, args.output_file_path, args.checksum_type) # args.checksum

\* C26: a fetch of a target where such a file sits, with force_overwrite=false
\* and allow_invalid_checksum=false, fails with ChecksumMismatch, makes no
\* transfer and leaves the file as it is, so that the next fetch finds it
\* again; a fetch of that target makes a transfer only with
\* force_overwrite=true.
C26_StaleFileKeepsFailing ==
    [][(IsFetch(last') /\ calls' = calls + 1 /\ StaleTarget(fs, last'.args))
          => /\ (~last'.args.force_overwrite /\ ~last'.args.allow_invalid_checksum)
                   => /\ last'.err = "ChecksumMismatch"
                      /\ Transfers(last') = {}
                      /\ Content(fs') = Content(fs)
                      /\ StaleTarget(fs', last'.args)
             /\ Transfers(last') # {} => last'.args.force_overwrite]_vars

\* A fetch failed in the transfer and left an empty file at its target; the
\* next fetch of the target failed on that file's checksum without a transfer.
C26_FailedAfterFailedTransfer ==
    /\ IsFetch(prev) /\ prev.err = "TransferError"
    /\ prev.args.output_file_path = FetchTarget /\ ~prev.args.temp
    /\ IsFetch(last) /\ last.err = "ChecksumMismatch" /\ Transfers(last) = {}
    /\ ~last.args.force_overwrite /\ ~last.args.allow_invalid_checksum
    /\ IsFile(fs, FetchTarget) /\ fs[FetchTarget].data = ""

\* Where download() fetches the main source of the mode when it is not
\* temporary.
MainTarget(output_path) ==
    BaseOutputPath(output_path, FALSE) \o <<SortSources(remote_sources[mode])[1].filename>>

\* The same at the level of the dataset: a download() with temp, overwrite and
\* allow_invalid_checksum off that finds no root directory and, at the target
\* of its main source, a file with another digest, fails with ChecksumMismatch
\* without a transfer and leaves the disk as it is.
DownloadKeepsFailingOnStaleMain ==
    [][(/\ IsDownload(last') /\ calls' = calls + 1
        /\ ~last'.temp /\ ~last'.overwrite /\ ~last'.allow_invalid_checksum
        /\ main_sources_count(remote_sources[mode]) = 1
        /\ ~IsDir(fs, root_dir_path(mode, last'.output_path))
        /\ IsFile(fs, MainTarget(last'.output_path))
        /\ ~validate_checksum(fs, MainTarget(last'.output_path),
                              SortSources(remote_sources[mode])[1].checksum,
                              SortSources(remote_sources[mode])[1].checksum_type))
       => /\ last'.err = "ChecksumMismatch"
          /\ Transfers(last') = {}
          /\ Content(fs') = Content(fs)]_vars

\* A download() failed on the file a failed transfer of the main source left.
StaleMainFailedAgain ==
    /\ IsDownload(prev) /\ prev.err = "TransferError"
    /\ IsDownload(last) /\ last.err = "ChecksumMismatch" /\ Transfers(last) = {}

\* The places of a download() where self._root_dir is assigned: the no-op
\* return and the processing of the main source.
RootWrites(c) == {i \in DOMAIN c.log : c.log[i].ev \in {"noop", "set_root"}}

\* download() failed before its main source was fully processed: it raised
\* and had not started on an auxiliary source.
FailedOnMain(c) ==
    /\ IsDownload(c) /\ c.err # "ok"
    /\ \A i \in DOMAIN c.log :
          c.log[i].ev = "fetch" =>
              \E k \in DOMAIN remote_sources[mode] :
                  /\ remote_sources[mode][k].main_source
                  /\ remote_sources[mode][k].url = c.log[i].url

\* C27: root_dir changes only in a download(), which assigns it at most once
\* (in the no-op return or when the main source is processed); a download()
\* that fails before its main source is fully processed leaves root_dir as it
\* was before the call, and compute_index() leaves it as it was.
C27_RootWrittenOncePerDownload ==
    [][/\ root_dir' # root_dir => (last'.op \in {"download", "init"} /\ calls' = calls + 1)
       /\ (last'.op = "init" /\ calls' = calls + 1) => root_dir' \in {root_dir, NoPath}
       /\ (last'.op = "compute_index" /\ calls' = calls + 1) => root_dir' = root_dir
       /\ (IsDownload(last') /\ calls' = calls + 1) =>
             /\ Cardinality(RootWrites(last')) <= 1
             /\ RootWrites(last') = {} => root_dir' = root_dir
             /\ \A i \in RootWrites(last') : root_dir' = last'.log[i].path
             /\ FailedOnMain(last') => root_dir' = root_dir]_vars

\* A download() on an instance whose root was set failed in the transfer of
\* its main source, and the root is the one of the earlier run.
C27_FailedRunKeptRoot ==
    /\ FailedOnMain(last) /\ Transfers(last) # {}
    /\ last.root_before # NoPath /\ root_dir = last.root_before
    /\ IsDownload(prev) /\ prev.err = "ok"
====
